---- MODULE Spec2Model ----
(***************************************************************************)
(* Post-quantum transport security of the messaging backend:               *)
(*   backend/app/pq_transport.py     KEM identity, HKDF, AES-GCM           *)
(*   backend/app/session_manager.py  per-user session key store            *)
(*   backend/app/routers/pq.py       public-key fetch and handshake        *)
(*   backend/app/routers/messages.py, documents.py   payload ingestion     *)
(*                                                                         *)
(* Byte strings and texts are symbolic terms: tagged tuples whose first    *)
(* component names the constructor.  The cryptographic primitives of the   *)
(* libraries (liboqs Kyber, HKDF-SHA256, AES-GCM, base64, UTF-8) are free  *)
(* constructors with the equations their contracts give: decapsulation     *)
(* inverts encapsulation under the matching key and otherwise returns the  *)
(* implicit-rejection secret, AES-GCM opens exactly what was sealed under  *)
(* the same key and nonce, HKDF is injective up to collisions.             *)
(***************************************************************************)
EXTENDS Integers, Sequences, FiniteSets, TLC

\* ------------------------------------------------------------------ bounds
MaxKeypairs == 2      \* calls of generate_server_keypair explored
MaxEncaps   == 1      \* distinct client encapsulation coins
MaxNonce    == 1      \* distinct 12-byte nonces
MaxRandom   == 2      \* distinct outcomes of one os.urandom(32) draw
MaxRecords  == 1      \* records the database holds in all
MaxTasks    == 2      \* requests in flight at once
MaxDraws    == 3      \* distinct outcomes of one os.urandom(12) draw in encrypt_aes_gcm
MaxEncrypts == 3      \* calls of encrypt_aes_gcm explored
MaxSockets  == 1      \* WebSocket connections a user opens one after the other
MaxSealed   == 1      \* encrypt_aes_gcm calls whose result is handed to decrypt_aes_gcm
MaxMessages == 2      \* messages the messages collection holds
MaxConnections == 2   \* WebSocket connections opened on one path /ws/{user_id}

\* --------------------------------------------------------- program values
None == <<>>                         \* Python None / absent
Users == {"u1", "u2"}                \* authenticated identities (str(_id))
UnknownUser == "u9"                  \* a well-formed id of no user
InvalidId == "not-an-object-id"      \* fails ObjectId.is_valid

Label == <<"bytes", "pq_transport_session">>

\* Python str values and their UTF-8 encodings
Str(s) == <<"str", s>>
Texts == {Str("hello")}
encode(s) == <<"utf8", s[2]>>                  \* str.encode('utf-8')
Surrogate == Str("lone surrogate")             \* a str that UTF-8 cannot encode
CanEncode(s) == s # Surrogate
RawBytes == <<"raw", 1>>                       \* a byte string that is not UTF-8
CanDecode(b) == b[1] = "utf8"
decode(b) == <<"str", b[2]>>                   \* bytes.decode('utf-8'), when CanDecode
strip_is_empty(s) == s[2] \in {"", " "}        \* s.strip() == ""

\* base64 transport encoding
b64encode(b) == <<"b64", b>>
NotBase64 == <<"notb64">>                      \* text with incorrect padding
CanB64Decode(w) == w[1] = "b64"
b64decode(w) == w[2]

\* ------------------------------------------------------------ KEM (oqs)
\* generate_keypair()/export_secret_key(): the g-th key generation
KemKeypair(g) == [public_key |-> <<"pk", g>>, secret_key |-> <<"sk", g>>]
\* encap_secret(public_key) with coins r, as the simulated client calls it
KemEncaps(pk, r) == [ciphertext |-> <<"ct", pk, r>>, shared_secret |-> <<"ss", pk, r>>]
ShortCiphertext == <<"short">>                 \* wrong length for Kyber512
\* decap_secret(ciphertext) under secret key sk: raises on a wrong length
KemCanDecaps(ct) == ct[1] = "ct"
KemDecaps(sk, ct) ==
    IF sk[1] = "sk" /\ ct[2] = <<"pk", sk[2]>>
    THEN <<"ss", ct[2], ct[3]>>
    ELSE <<"rej", sk, ct>>                     \* implicit rejection

\* os.urandom(n): the i-th possible outcome of a draw of n bytes
urandom(n, i) == <<"rand", n, i>>

\* ------------------------------------------------------ pq_transport.py
\* AESGCM(key).encrypt(nonce, data, None)
AesGcmSeal(key, nonce, data) == <<"gcm", key, nonce, data>>
Nonce(n) == <<"nonce", n>>
\* a sealed message with one bit flipped
FlipBit(ct) == <<"flipped", ct>>
\* AESGCM(key).decrypt(nonce, ct, None): tag verifies or InvalidTag
AesGcmOpens(key, nonce, ct) == ct[1] = "gcm" /\ ct[2] = key /\ ct[3] = nonce
AesGcmOpen(key, nonce, ct) == ct[4]

\* encrypt_aes_gcm(key, plaintext) when os.urandom(12) draws nonce n
encrypt_aes_gcm(key, plaintext, n) ==
    [nonce |-> Nonce(n), ciphertext |-> AesGcmSeal(key, Nonce(n), encode(plaintext))]

\* variant: the nonce is not part of what the tag authenticates
decrypt_aes_gcm_error_anynonce(key, nonce, ciphertext) ==
    IF ~(ciphertext[1] = "gcm" /\ ciphertext[2] = key)
    THEN "Decryption failed: . This could mean the key is wrong or the data was tampered with."
    ELSE ""

\* variant: the opened bytes are returned without decoding
decrypt_aes_gcm_raw(key, nonce, ciphertext) == AesGcmOpen(key, nonce, ciphertext)

\* decrypt_aes_gcm(key, nonce, ciphertext): the message of the ValueError it
\* raises ("" when it returns), built from the InvalidTag or UnicodeDecodeError
\* caught, and the text it returns otherwise
decrypt_aes_gcm_error(key, nonce, ciphertext) ==
    IF ~AesGcmOpens(key, nonce, ciphertext)
    THEN "Decryption failed: . This could mean the key is wrong or the data was tampered with."
    ELSE IF ~CanDecode(AesGcmOpen(key, nonce, ciphertext))
    THEN "Decryption failed: 'utf-8' codec can't decode byte 0xff in position 0: invalid start byte. This could mean the key is wrong or the data was tampered with."
    ELSE ""
decrypt_aes_gcm(key, nonce, ciphertext) == decode(AesGcmOpen(key, nonce, ciphertext))

VARIABLES
    HAS_OQS,                 \* pq_transport.HAS_OQS, fixed at import
    server_kem_public_key,   \* pq_transport.server_kem_public_key
    server_kem_secret_key,   \* pq_transport.server_kem_secret_key
    keygen_count,            \* number of generate_server_keypair calls so far
    session_keys,            \* session_manager.session_keys: dict user_id -> key
    agreed_key,              \* per user: the key its client derived in the handshake that
                             \* opened the user's current session, None once a clear, key
                             \* generation or other handshake ended that session
    messages,                \* database.messages
    message_requests,        \* database.message_requests
    documents,               \* database.documents
    resp,                    \* the last request and what it returned
    tasks,                   \* the requests in flight, each with its position and locals
    encrypted,               \* the encrypt_aes_gcm calls made so far: key and result
    active_connections,      \* websocket.active_connections: dict user_id -> WebSocket
    websockets,              \* the WebSocket connections whose endpoint is in its receive loop
    ws_sent                  \* what send_json delivered so far: connection and payload

vars == <<HAS_OQS, server_kem_public_key, server_kem_secret_key, keygen_count,
          session_keys, agreed_key, messages, message_requests, documents, resp,
          tasks, encrypted, active_connections, websockets, ws_sent>>

\* a request in flight: the handler it runs (op), the statement it is at (pc),
\* the authenticated user, the request body (input) and the handler's locals
Task(op, pc, user, input, shared_secret, session_key, plaintext_content, error) ==
    [op |-> op, pc |-> pc, user |-> user, input |-> input,
     shared_secret |-> shared_secret, session_key |-> session_key,
     plaintext_content |-> plaintext_content, error |-> error]
Idle == Task("idle", "idle", "", None, None, None, None, "")
Slots == 1..MaxTasks

\* op, user: the operation and the identity it ran for; status, detail: the HTTP
\* status and error detail (0, "" for a plain function call); input: the request
\* body or ciphertext; prior: the caller's stored key before the operation;
\* secret: what server_decapsulate returned; key: the key handed to
\* decrypt_aes_gcm; result: the value returned or the plaintext_content reached
Response(op, user, status, detail, input, prior, secret, key, result) ==
    [op |-> op, user |-> user, status |-> status, detail |-> detail,
     input |-> input, prior |-> prior, secret |-> secret, key |-> key, result |-> result]

Init ==
    /\ HAS_OQS \in BOOLEAN
    /\ server_kem_public_key = None
    /\ server_kem_secret_key = None
    /\ keygen_count = 0
    /\ session_keys = [u \in {} |-> None]
    /\ agreed_key = [u \in Users |-> None]
    /\ messages = <<>>
    /\ message_requests = <<>>
    /\ documents = <<>>
    /\ resp = Response("import", "", 0, "", None, None, None, None, None)
    /\ tasks = [s \in Slots |-> Idle]
    /\ encrypted = <<>>
    /\ active_connections = [u \in {} |-> None]
    /\ websockets = {}
    /\ ws_sent = <<>>

\* ------------------------------- pq_transport.py: derive_session_key
\* variant: the derivation is salted with the number of sessions open
derive_session_key_salted(shared_secret, info) ==
    <<"hkdf", shared_secret, info, Cardinality(DOMAIN session_keys)>>

derive_session_key(shared_secret, info) == <<"hkdf", shared_secret, info>>

\* --------------------------------------------------- session_manager.py
\* the dict session_keys is a function whose domain is the set of its keys

\* variant: an existing entry is kept (setdefault instead of assignment)
store_session_key_keep(store, user_id, session_key) ==
    IF user_id \in DOMAIN store
    THEN store
    ELSE [v \in DOMAIN store \cup {user_id} |-> IF v = user_id THEN session_key ELSE store[v]]

\* variant: the key is filed under a fixed identity instead of the caller's
store_session_key_misfiled(store, user_id, session_key) ==
    [v \in DOMAIN store \cup {"u1"} |-> IF v = "u1" THEN session_key ELSE store[v]]

\* variant: overwriting an entry leaves a mix of the old and the new bytes
store_session_key_torn(store, user_id, session_key) ==
    [v \in DOMAIN store \cup {user_id} |->
        IF v # user_id THEN store[v]
        ELSE IF user_id \in DOMAIN store /\ store[user_id] # session_key
        THEN <<"torn", store[user_id], session_key>>
        ELSE session_key]

store_session_key(store, user_id, session_key) ==
    [v \in DOMAIN store \cup {user_id} |-> IF v = user_id THEN session_key ELSE store[v]]
\* variant: a missing entry falls back to some other identity's key
lookup_session_key_any(store, user_id) ==
    IF user_id \in DOMAIN store THEN store[user_id]
    ELSE IF DOMAIN store # {} THEN store[CHOOSE v \in DOMAIN store : TRUE]
    ELSE None

lookup_session_key(store, user_id) ==
    IF user_id \in DOMAIN store THEN store[user_id] ELSE None
get_session_key(user_id) == lookup_session_key(session_keys, user_id)
\* variant: the entry is never deleted
clear_session_key_noop(store, user_id) == store

\* variant: the whole dict is emptied (session_keys.clear())
clear_session_key_all(store, user_id) ==
    IF user_id \in DOMAIN store THEN [v \in {} |-> None] ELSE store

clear_session_key(store, user_id) ==
    IF user_id \in DOMAIN store
    THEN [v \in DOMAIN store \ {user_id} |-> store[v]]
    ELSE store

\* variant: true as soon as anyone has a key
has_session_key_any(user_id) == DOMAIN session_keys # {}

has_session_key(user_id) == user_id \in DOMAIN session_keys

\* ------------------------------------------- pq_transport.py: KEM identity
\* the key pair the g-th call of generate_server_keypair produces
generate_server_keypair(has_oqs, g) ==
    IF has_oqs
    THEN KemKeypair(g)
    ELSE [public_key |-> urandom(800, g), secret_key |-> urandom(1632, g)]

\* variant: a later call replaces the public key alone
GenerateServerKeypair_halfway ==
    /\ keygen_count < MaxKeypairs
    /\ LET kp == generate_server_keypair(HAS_OQS, keygen_count + 1) IN
        /\ server_kem_public_key' = kp.public_key
        /\ server_kem_secret_key' = IF keygen_count = 0 THEN kp.secret_key
                                    ELSE server_kem_secret_key
        /\ keygen_count' = keygen_count + 1
        /\ resp' = Response("generate_server_keypair", "", 0, "", None, None, None, None,
                            <<"pair", kp.public_key, kp.secret_key>>)
        /\ agreed_key' = [u \in Users |-> None]
    /\ UNCHANGED <<active_connections, websockets, ws_sent, tasks, encrypted, HAS_OQS, session_keys, messages, message_requests, documents>>

GenerateServerKeypair ==
    /\ keygen_count < MaxKeypairs
    /\ LET kp == generate_server_keypair(HAS_OQS, keygen_count + 1) IN
        /\ server_kem_public_key' = kp.public_key
        /\ server_kem_secret_key' = kp.secret_key
        /\ keygen_count' = keygen_count + 1
        /\ resp' = Response("generate_server_keypair", "", 0, "", None, None, None, None,
                            <<"pair", kp.public_key, kp.secret_key>>)
        /\ agreed_key' = [u \in Users |-> None]
    /\ UNCHANGED <<active_connections, websockets, ws_sent, tasks, encrypted, HAS_OQS, session_keys, messages, message_requests, documents>>

\* get_server_public_key() raises RuntimeError before the first generation
get_server_public_key_raises == server_kem_public_key = None

\* server_decapsulate(ciphertext): the outcomes it can have, each either
\* [raised |-> TRUE, error] or [raised |-> FALSE, shared_secret]
server_decapsulate(ciphertext) ==
    IF server_kem_secret_key = None
    THEN {[raised |-> TRUE, error |-> "Server secret key not initialized.", shared_secret |-> None]}
    ELSE IF HAS_OQS
         THEN IF KemCanDecaps(ciphertext)
              THEN {[raised |-> FALSE, error |-> "",
                     shared_secret |-> KemDecaps(server_kem_secret_key, ciphertext)]}
              ELSE {[raised |-> TRUE, error |-> "oqs decapsulation error", shared_secret |-> None]}
         ELSE {[raised |-> FALSE, error |-> "", shared_secret |-> urandom(32, i)] :
                  i \in 1..MaxRandom}

\* ------------------------------------------------------- routers/pq.py
\* variant: the key of the first generation is served for ever (a cached copy)
get_kem_public_key_first ==
    /\ resp' = IF get_server_public_key_raises
               THEN Response("get_kem_public_key", "", 500,
                             "Server keypair not initialized: Server keypair not initialized. Call generate_server_keypair() first.",
                             None, None, None, None, None)
               ELSE Response("get_kem_public_key", "", 200, "", None, None, None, None,
                             b64encode(generate_server_keypair(HAS_OQS, 1).public_key))
    /\ UNCHANGED <<active_connections, websockets, ws_sent, tasks, encrypted, HAS_OQS, server_kem_public_key, server_kem_secret_key,
                   keygen_count, session_keys, agreed_key, messages, message_requests,
                   documents>>

\* GET /pq/kem-public-key, by anyone
get_kem_public_key ==
    /\ resp' = IF get_server_public_key_raises
               THEN Response("get_kem_public_key", "", 500,
                             "Server keypair not initialized: Server keypair not initialized. Call generate_server_keypair() first.",
                             None, None, None, None, None)
               ELSE Response("get_kem_public_key", "", 200, "", None, None, None, None,
                             b64encode(server_kem_public_key))
    /\ UNCHANGED <<active_connections, websockets, ws_sent, tasks, encrypted, HAS_OQS, server_kem_public_key, server_kem_secret_key, keygen_count,
                   session_keys, agreed_key, messages, message_requests, documents>>

\* public keys the server has published so far
PublishedKeys == {generate_server_keypair(HAS_OQS, g).public_key : g \in 1..keygen_count}

\* what a caller may put in HandshakeRequest.ciphertext
HandshakeInputs ==
    {NotBase64, b64encode(ShortCiphertext)}
    \cup {b64encode(KemEncaps(pk, r).ciphertext) : pk \in PublishedKeys, r \in 1..MaxEncaps}

\* the session key the client holds for a handshake it sent: HKDF of the
\* shared secret its own encapsulation returned (None when it sent no
\* encapsulation)
ClientSessionKey(w) ==
    IF CanB64Decode(w) /\ KemCanDecaps(b64decode(w))
    THEN derive_session_key(<<"ss", b64decode(w)[2], b64decode(w)[3]>>, Label)
    ELSE None

\* the key the client and the server are to share after an accepted handshake:
\* the client's, when it encapsulated against the published public key
AgreedKey(w) ==
    IF CanB64Decode(w) /\ KemCanDecaps(b64decode(w))
       /\ b64decode(w)[2] = server_kem_public_key
    THEN ClientSessionKey(w)
    ELSE None

\* variant: a failed handshake drops the caller's session
HandshakeFailed_clears(user_id, w, error) ==
    /\ resp' = Response("handshake", user_id, 400, "Handshake failed: " \o error,
                        w, get_session_key(user_id), None, None, None)
    /\ session_keys' = clear_session_key(session_keys, user_id)
    /\ UNCHANGED agreed_key

HandshakeFailed(user_id, w, error) ==
    /\ resp' = Response("handshake", user_id, 400, "Handshake failed: " \o error,
                        w, get_session_key(user_id), None, None, None)
    /\ UNCHANGED <<session_keys, agreed_key>>

\* POST /pq/handshake by the authenticated user user_id
handshake(user_id, w) ==
    /\ IF ~CanB64Decode(w)
       THEN HandshakeFailed(user_id, w, "Incorrect padding")
       ELSE \E d \in server_decapsulate(b64decode(w)) :
              IF d.raised
              THEN HandshakeFailed(user_id, w, d.error)
              ELSE LET session_key == derive_session_key(d.shared_secret, Label) IN
                     /\ session_keys' = store_session_key(session_keys, user_id, session_key)
                     /\ agreed_key' = [agreed_key EXCEPT ![user_id] = AgreedKey(w)]
                     /\ resp' = Response("handshake", user_id, 200, "", w,
                                         get_session_key(user_id), d.shared_secret,
                                         None, None)
    /\ UNCHANGED <<active_connections, websockets, ws_sent, tasks, encrypted, HAS_OQS, server_kem_public_key, server_kem_secret_key, keygen_count,
                   messages, message_requests, documents>>

\* clear_session_key(user_id), e.g. on logout
ClearSessionKey(user_id) ==
    /\ session_keys' = clear_session_key(session_keys, user_id)
    /\ agreed_key' = [agreed_key EXCEPT ![user_id] = None]
    /\ resp' = Response("clear_session_key", user_id, 0, "", None,
                        get_session_key(user_id), None, None, None)
    /\ UNCHANGED <<active_connections, websockets, ws_sent, tasks, encrypted, HAS_OQS, server_kem_public_key, server_kem_secret_key, keygen_count,
                   messages, message_requests, documents>>

\* a caller reading the store through get_session_key / has_session_key
GetSessionKey(user_id) ==
    /\ resp' = Response("get_session_key", user_id, 0, "", None, None, None, None,
                        get_session_key(user_id))
    /\ UNCHANGED <<active_connections, websockets, ws_sent, tasks, encrypted, HAS_OQS, server_kem_public_key, server_kem_secret_key, keygen_count,
                   session_keys, agreed_key, messages, message_requests, documents>>

HasSessionKey(user_id) ==
    /\ resp' = Response("has_session_key", user_id, 0, "", None, None, None, None,
                        <<"bool", has_session_key(user_id)>>)
    /\ UNCHANGED <<active_connections, websockets, ws_sent, tasks, encrypted, HAS_OQS, server_kem_public_key, server_kem_secret_key, keygen_count,
                   session_keys, agreed_key, messages, message_requests, documents>>

\* ------------------------------------------------- models.py: MessageCreate
Body(content, nonce, ciphertext) ==
    [content |-> content, nonce |-> nonce, ciphertext |-> ciphertext]

\* MessageCreate.is_encrypted
is_encrypted(body) == body.nonce # None /\ body.ciphertext # None

\* variant: content next to an encrypted payload is let through
model_post_init_lenient(body) ==
    LET is_enc == is_encrypted(body)
        has_content == body.content # None /\ ~strip_is_empty(body.content)
    IN  IF ~is_enc /\ ~has_content
        THEN "Either 'content' (plaintext) or both 'nonce' and 'ciphertext' (encrypted) must be provided"
        ELSE ""

\* MessageCreate.model_post_init: the ValueError it raises, or "" when valid
model_post_init(body) ==
    LET is_enc == is_encrypted(body)
        has_content == body.content # None /\ ~strip_is_empty(body.content)
    IN  IF ~is_enc /\ ~has_content
        THEN "Either 'content' (plaintext) or both 'nonce' and 'ciphertext' (encrypted) must be provided"
        ELSE IF is_enc /\ has_content
        THEN "Cannot provide both plaintext 'content' and encrypted 'nonce'/'ciphertext'"
        ELSE ""

\* DocumentCreate.is_encrypted: the document models are not in models.py; a
\* document payload is encrypted when it carries both nonce and ciphertext
document_is_encrypted(body) == body.nonce # None /\ body.ciphertext # None

\* ----------------------------------- the clients' side of the transport
\* session keys a client can hold: those derived from an encapsulation
\* against a public key the server published
ClientKeys ==
    {derive_session_key(KemEncaps(pk, r).shared_secret, Label) :
        pk \in PublishedKeys, r \in 1..MaxEncaps}

\* what a client can seal under a key it holds: encrypt_aes_gcm of a text,
\* or the AES-GCM sealing of bytes that are not UTF-8
SealedTexts ==
    {encrypt_aes_gcm(k, t, n) : k \in ClientKeys, t \in Texts, n \in 1..MaxNonce}
SealedPayloads ==
    SealedTexts
    \cup {[nonce |-> Nonce(n), ciphertext |-> AesGcmSeal(k, Nonce(n), RawBytes)] :
            k \in ClientKeys, n \in 1..MaxNonce}

\* the body that is a sealed payload sent untouched
IntactBody(p) == Body(None, b64encode(p.nonce), b64encode(p.ciphertext))

\* the request bodies made of a sealed payload: sent as is, with a flipped
\* bit, or with a nonce that is not base64
WireBodies(p) ==
    {Body(None, b64encode(p.nonce), b64encode(p.ciphertext)),
     Body(None, b64encode(p.nonce), b64encode(FlipBit(p.ciphertext))),
     Body(None, NotBase64, b64encode(p.ciphertext))}

EncryptedBodies ==
    UNION {WireBodies(p) : p \in SealedTexts}
    \cup {Body(None, b64encode(p.nonce), b64encode(p.ciphertext)) : p \in SealedPayloads}

PlainBodies ==
    {Body(Str("hello"), None, None), Body(Str(" "), None, None), Body(None, None, None)}

\* a plaintext content next to an encrypted payload
MixedBodies ==
    {Body(Str("hello"), b64encode(p.nonce), b64encode(p.ciphertext)) : p \in SealedTexts}

Bodies == PlainBodies \cup EncryptedBodies \cup MixedBodies

\* -------------------------------- routers/messages.py, routers/documents.py
\* the encrypted branch of send_message / upload_document: the session key
\* lookup, the base64 decoding and decrypt_aes_gcm, with the HTTP error each
\* failure is turned into.  key is the key handed to decrypt_aes_gcm.
Ingested(ok, status, detail, key, plaintext_content) ==
    [ok |-> ok, status |-> status, detail |-> detail, key |-> key,
     plaintext_content |-> plaintext_content]

\* the try block: base64 decoding and decrypt_aes_gcm under session_key
decrypt_with(session_key, body, noun) ==
    IF ~CanB64Decode(body.nonce) \/ ~CanB64Decode(body.ciphertext)
    THEN Ingested(FALSE, 400, "Failed to decrypt " \o noun \o ": Incorrect padding",
                  None, None)
    ELSE LET nonce == b64decode(body.nonce)
             ciphertext == b64decode(body.ciphertext)
             error == decrypt_aes_gcm_error(session_key, nonce, ciphertext)
         IN  IF error # ""
             THEN Ingested(FALSE, 400, "Failed to decrypt " \o noun \o ": " \o error,
                           session_key, None)
             ELSE Ingested(TRUE, 0, "", session_key,
                           decrypt_aes_gcm(session_key, nonce, ciphertext))

decrypt_incoming(user_id, body, noun) ==
    LET session_key == get_session_key(user_id) IN
    IF session_key = None
    THEN Ingested(FALSE, 400, "No session key found. Please perform PQ handshake first.",
                  None, None)
    ELSE decrypt_with(session_key, body, noun)

\* variant: plaintext is taken only while some session is open
plaintext_incoming_keyed(body, noun) ==
    IF DOMAIN session_keys = {}
    THEN Ingested(FALSE, 400, "No session key found. Please perform PQ handshake first.",
                  None, None)
    ELSE IF body.content = None \/ strip_is_empty(body.content)
    THEN Ingested(FALSE, 400, noun \o " content cannot be empty", None, None)
    ELSE Ingested(TRUE, 0, "", None, body.content)

\* the plaintext branch: content is taken as sent, blank content is refused
plaintext_incoming(body, noun) ==
    IF body.content = None \/ strip_is_empty(body.content)
    THEN Ingested(FALSE, 400, noun \o " content cannot be empty", None, None)
    ELSE Ingested(TRUE, 0, "", None, body.content)

\* the database accepts an insert while it holds fewer than MaxRecords records
CanInsert == Len(messages) + Len(message_requests) + Len(documents) < MaxRecords
\* the messages collection accepts an insert while it holds fewer than MaxMessages
CanInsertMessage == Len(messages) < MaxMessages

\* ObjectId.is_valid(recipient_id) and users.find_one({"_id": recipient_id})
Recipients == Users \cup {UnknownUser, InvalidId}
ObjectId_is_valid(id) == id # InvalidId

\* the timestamp of a message: datetime.utcnow() of the request that stores
\* it, or the timestamp of the i-th message request when it is copied from it
Now == <<"ts", "now">>
RequestTimestamp(i) == <<"ts", "request", i>>

\* variant: every recipient counts as an existing conversation
existing_conversation_always(a, b) == TRUE

\* messages.find_one of a message between the two users, in either direction
existing_conversation(a, b) ==
    \E i \in 1..Len(messages) :
        \/ messages[i].sender_id = a /\ messages[i].recipient_id = b
        \/ messages[i].sender_id = b /\ messages[i].recipient_id = a

\* variant: the submission is inserted before it is examined, so a refused
\* one stays in the database
SendRejected_stored(user_id, body, status, detail, key, plaintext_content) ==
    /\ resp' = Response("send_message", user_id, status, detail, body, None, None, key,
                        plaintext_content)
    /\ message_requests' = IF CanInsert
                           THEN Append(message_requests,
                                       [sender_id |-> user_id, recipient_id |-> user_id,
                                        content |-> body.content, status |-> "pending"])
                           ELSE message_requests
    /\ UNCHANGED messages

SendRejected(user_id, body, status, detail, key, plaintext_content) ==
    /\ resp' = Response("send_message", user_id, status, detail, body, None, None, key,
                        plaintext_content)
    /\ UNCHANGED <<messages, message_requests>>

\* ------------------------------------------------- routers/websocket.py
\* a WebSocket object: the connection with serial n accepted for user_id
WebSocket(user_id, n) == <<"ws", user_id, n>>

\* send_message_to_user / send_message_request_to_user: send_json on the
\* recipient's registered connection; when it raises, the entry is deleted
send_to_user(recipient_id, type, data) ==
    IF recipient_id \in DOMAIN active_connections
    THEN \/ /\ ws_sent' = Append(ws_sent, [to |-> active_connections[recipient_id],
                                            type |-> type, data |-> data])
            /\ UNCHANGED active_connections
         \/ /\ active_connections' =
                  [v \in DOMAIN active_connections \ {recipient_id} |-> active_connections[v]]
            /\ UNCHANGED ws_sent
    ELSE UNCHANGED <<active_connections, ws_sent>>

\* websocket_endpoint for a connection that authenticates as user_id: it is
\* accepted, registered and enters the receive loop
WebsocketConnect(user_id, n) ==
    /\ WebSocket(user_id, n) \notin websockets
    /\ websockets' = websockets \cup {WebSocket(user_id, n)}
    /\ active_connections' =
          [v \in DOMAIN active_connections \cup {user_id} |->
              IF v = user_id THEN WebSocket(user_id, n) ELSE active_connections[v]]
    /\ UNCHANGED <<HAS_OQS, server_kem_public_key, server_kem_secret_key, keygen_count,
                   session_keys, agreed_key, messages, message_requests, documents, resp,
                   tasks, encrypted, ws_sent>>

\* the ?token= query parameter: absent, a token that does not verify, or the
\* token issued to user u
Token(u) == <<"token", u>>
InvalidToken == <<"token", "expired">>
Tokens == {None, InvalidToken} \cup {Token(u) : u \in Users}
\* app.auth.get_current_user_websocket(token): the user the token was issued
\* to; it raises HTTPException for a token that does not verify
TokenVerifies(token) == token[2] \in Users
get_current_user_websocket(token) == token[2]

\* variant: the path user id is not compared with the authenticated user
PathMatches_any(current_user, user_id) == TRUE

\* str(current_user["_id"]) != user_id, negated
PathMatches(current_user, user_id) == current_user = user_id

\* websocket_endpoint for the n-th connection opened on /ws/{user_id} with the
\* given token: closed with code 1008 unless the token authenticates as
\* user_id, else registered under the authenticated user
websocket_endpoint(user_id, token, n) ==
    LET websocket == WebSocket(user_id, n)
        Closed(reason) ==
            /\ resp' = Response("websocket_endpoint", user_id, 1008, reason, token,
                                None, None, None, None)
            /\ UNCHANGED <<active_connections, websockets>>
    IN
    /\ websocket \notin websockets
    /\ IF token = None
       THEN Closed("Authentication required")
       ELSE IF ~TokenVerifies(token)
       THEN Closed("Authentication failed")
       ELSE IF ~PathMatches(get_current_user_websocket(token), user_id)
       THEN Closed("Invalid user")
       ELSE LET user_id_str == get_current_user_websocket(token) IN
            /\ websockets' = websockets \cup {websocket}
            /\ active_connections' =
                  [v \in DOMAIN active_connections \cup {user_id_str} |->
                      IF v = user_id_str THEN websocket ELSE active_connections[v]]
            /\ resp' = Response("websocket_endpoint", user_id, 101, "", token,
                                None, None, None, websocket)
    /\ UNCHANGED <<HAS_OQS, server_kem_public_key, server_kem_secret_key, keygen_count,
                   session_keys, agreed_key, messages, message_requests, documents,
                   tasks, encrypted, ws_sent>>

\* the receive loop of a connection ends (WebSocketDisconnect or an error):
\* the finally block deletes the user's entry when there is one
WebsocketDisconnect(ws) ==
    /\ ws \in websockets
    /\ websockets' = websockets \ {ws}
    /\ active_connections' =
          [v \in DOMAIN active_connections \ {ws[2]} |-> active_connections[v]]
    /\ UNCHANGED <<HAS_OQS, server_kem_public_key, server_kem_secret_key, keygen_count,
                   session_keys, agreed_key, messages, message_requests, documents, resp,
                   tasks, encrypted, ws_sent>>

\* -------------------------------------------------- routers/messages.py
\* send_message from the recipient validation on, once the content is in hand
deliver(user_id, recipient_id, body, in) ==
    LET Refused(status, detail) ==
            /\ SendRejected(user_id, body, status, detail, in.key, in.plaintext_content)
            /\ UNCHANGED <<active_connections, ws_sent>>
    IN
    IF ~ObjectId_is_valid(recipient_id)
    THEN Refused(400, "Invalid recipient ID")
    ELSE IF recipient_id \notin Users
    THEN Refused(404, "Recipient user not found")
    ELSE IF recipient_id = user_id
    THEN Refused(400, "Cannot send message to yourself")
    ELSE IF ~existing_conversation(user_id, recipient_id)
    THEN \* first contact: a pending message request is inserted; building
         \* MessageRequestResponse(content=message_data.content) then fails
         \* validation when the submission carried no plaintext content,
         \* before the notification is sent
         /\ CanInsert
         /\ message_requests' = Append(message_requests,
                [sender_id |-> user_id, recipient_id |-> recipient_id,
                 content |-> in.plaintext_content, status |-> "pending"])
         /\ UNCHANGED messages
         /\ IF body.content = None
            THEN /\ resp' = Response("send_message", user_id, 500, "Internal Server Error",
                                     body, None, None, in.key, in.plaintext_content)
                 /\ UNCHANGED <<active_connections, ws_sent>>
            ELSE /\ resp' = Response("send_message", user_id, 201, "", body, None, None,
                                     in.key, in.plaintext_content)
                 /\ send_to_user(recipient_id, "new_request", body.content)
    ELSE /\ CanInsertMessage
         /\ messages' = Append(messages,
                [sender_id |-> user_id, recipient_id |-> recipient_id,
                 content |-> in.plaintext_content, timestamp |-> Now])
         /\ UNCHANGED message_requests
         /\ resp' = Response("send_message", user_id, 201, "", body, None, None, in.key,
                             in.plaintext_content)
         /\ send_to_user(recipient_id, "new_message", in.plaintext_content)

\* POST /messages by the authenticated user user_id
send_message(user_id, recipient_id, body) ==
    /\ IF model_post_init(body) # ""
       THEN /\ SendRejected(user_id, body, 422, model_post_init(body), None, None)
            /\ UNCHANGED <<active_connections, ws_sent>>
       ELSE
       LET in == IF is_encrypted(body)
                 THEN decrypt_incoming(user_id, body, "message")
                 ELSE plaintext_incoming(body, "Message")
       IN
       IF ~in.ok
       THEN /\ SendRejected(user_id, body, in.status, in.detail, in.key, None)
            /\ UNCHANGED <<active_connections, ws_sent>>
       ELSE deliver(user_id, recipient_id, body, in)
    /\ UNCHANGED <<websockets, tasks, encrypted, HAS_OQS, server_kem_public_key,
                   server_kem_secret_key, keygen_count, session_keys, agreed_key, documents>>

\* ------------------------------------------------- routers/documents.py
\* The collection is the sequence of the documents inserted so far; the i-th
\* has _id DocId(i) and stays in place, marked deleted, once delete_one took
\* it out.  written_by is the user whose request last set title or content.
DocId(i) == <<"oid", i>>
InvalidDocId == <<"invalid">>
DocumentIds == {DocId(i) : i \in 1..MaxRecords} \cup {InvalidDocId}
\* documents.find_one({"_id": document_id}) finds a document
DocumentFound(document_id) ==
    /\ document_id[2] \in 1..Len(documents)
    /\ ~documents[document_id[2]].deleted

\* POST /documents by the authenticated user user_id
upload_document(user_id, body) ==
    /\ LET in == IF document_is_encrypted(body)
                 THEN decrypt_incoming(user_id, body, "document")
                 ELSE plaintext_incoming(body, "Document")
       IN
       IF ~in.ok
       THEN /\ resp' = Response("upload_document", user_id, in.status, in.detail, body,
                                None, None, in.key, None)
            /\ UNCHANGED documents
       ELSE /\ CanInsert
            /\ documents' = Append(documents,
                   [user_id |-> user_id, title |-> Str("title"),
                    content |-> in.plaintext_content,
                    deleted |-> FALSE, written_by |-> user_id])
            /\ resp' = Response("upload_document", user_id, 201, "", body, None, None, in.key,
                                in.plaintext_content)
    /\ UNCHANGED <<active_connections, websockets, ws_sent, tasks, encrypted, HAS_OQS, server_kem_public_key, server_kem_secret_key, keygen_count,
                   session_keys, agreed_key, messages, message_requests>>

\* the DocumentUpdate request for document_id: title and content are optional
UpdateBody(document_id, title, body) ==
    [document_id |-> document_id, title |-> title, content |-> body.content,
     nonce |-> body.nonce, ciphertext |-> body.ciphertext]

\* variant: the ownership check is left out
IsOwner_anyone(document, user_id) == TRUE

\* document["user_id"] != user_id, negated
IsOwner(document, user_id) == document.user_id = user_id

DocumentRefused(op, user_id, input, status, detail, key) ==
    /\ resp' = Response(op, user_id, status, detail, input, None, None, key, None)
    /\ UNCHANGED documents

\* PUT /documents/{document_id} by the authenticated user user_id
update_document(user_id, document_id, title, body) ==
    /\ LET input == UpdateBody(document_id, title, body)
           i == document_id[2]
       IN
       IF document_id = InvalidDocId
       THEN DocumentRefused("update_document", user_id, input, 400, "Invalid document ID", None)
       ELSE IF ~DocumentFound(document_id)
       THEN DocumentRefused("update_document", user_id, input, 404, "Document not found", None)
       ELSE IF ~IsOwner(documents[i], user_id)
       THEN DocumentRefused("update_document", user_id, input, 403,
                            "You can only update your own documents", None)
       ELSE
       LET in == IF document_is_encrypted(body)
                 THEN decrypt_incoming(user_id, body, "document")
                 ELSE Ingested(TRUE, 0, "", None, body.content)
       IN
       IF ~in.ok
       THEN DocumentRefused("update_document", user_id, input, in.status, in.detail, in.key)
       ELSE /\ documents' = [documents EXCEPT
                   ![i].title = IF title # None THEN title ELSE @,
                   ![i].content = IF in.plaintext_content # None
                                  THEN in.plaintext_content ELSE @,
                   ![i].written_by = IF title # None \/ in.plaintext_content # None
                                     THEN user_id ELSE @]
            /\ resp' = Response("update_document", user_id, 200, "", input, None, None,
                                in.key, documents'[i].content)
    /\ UNCHANGED <<active_connections, websockets, ws_sent, tasks, encrypted, HAS_OQS,
                   server_kem_public_key, server_kem_secret_key, keygen_count,
                   session_keys, agreed_key, messages, message_requests>>

\* DELETE /documents/{document_id} by the authenticated user user_id
delete_document(user_id, document_id) ==
    /\ LET input == [document_id |-> document_id]
           i == document_id[2]
       IN
       IF document_id = InvalidDocId
       THEN DocumentRefused("delete_document", user_id, input, 400, "Invalid document ID", None)
       ELSE IF ~DocumentFound(document_id)
       THEN DocumentRefused("delete_document", user_id, input, 404, "Document not found", None)
       ELSE IF ~IsOwner(documents[i], user_id)
       THEN DocumentRefused("delete_document", user_id, input, 403,
                            "You can only delete your own documents", None)
       ELSE /\ documents' = [documents EXCEPT ![i].deleted = TRUE]
            /\ resp' = Response("delete_document", user_id, 200, "", input, None, None,
                                None, None)
    /\ UNCHANGED <<active_connections, websockets, ws_sent, tasks, encrypted, HAS_OQS,
                   server_kem_public_key, server_kem_secret_key, keygen_count,
                   session_keys, agreed_key, messages, message_requests>>

\* ------------------------------------------------ requests in flight
\* The handlers are coroutines of one process and session_keys is one dict
\* they share.  A request in flight advances one step at a time, a step being
\* the statements up to and including the next access to the shared state;
\* steps of different requests interleave freely, which covers the event
\* loop (a switch only at an await) and a threaded server alike.
ServerState == <<HAS_OQS, server_kem_public_key, server_kem_secret_key, keygen_count>>
Database == <<messages, message_requests, documents>>
Websockets == <<active_connections, websockets, ws_sent>>

\* pq.py 85: POST /pq/handshake by user_id is taken up in slot s
HandshakeReceive(s, user_id, w) ==
    /\ tasks[s] = Idle
    /\ tasks' = [tasks EXCEPT ![s] =
                    Task("handshake", "decapsulate", user_id, w, None, None, None, "")]
    /\ UNCHANGED <<Websockets, ServerState, Database, session_keys, agreed_key, resp, encrypted>>

\* pq.py 89-97: b64decode, server_decapsulate (reads the secret key), derive
HandshakeDecapsulate(s) ==
    /\ tasks[s].op = "handshake" /\ tasks[s].pc = "decapsulate"
    /\ IF ~CanB64Decode(tasks[s].input)
       THEN tasks' = [tasks EXCEPT ![s].pc = "except", ![s].error = "Incorrect padding"]
       ELSE \E d \in server_decapsulate(b64decode(tasks[s].input)) :
              IF d.raised
              THEN tasks' = [tasks EXCEPT ![s].pc = "except", ![s].error = d.error]
              ELSE tasks' = [tasks EXCEPT ![s].pc = "store",
                                          ![s].shared_secret = d.shared_secret,
                                          ![s].session_key =
                                              derive_session_key(d.shared_secret, Label)]
    /\ UNCHANGED <<Websockets, ServerState, Database, session_keys, agreed_key, resp, encrypted>>

\* pq.py 101: store_session_key(user_id, session_key)
HandshakeStore(s) ==
    /\ tasks[s].op = "handshake" /\ tasks[s].pc = "store"
    /\ session_keys' = store_session_key(session_keys, tasks[s].user, tasks[s].session_key)
    /\ agreed_key' = [agreed_key EXCEPT ![tasks[s].user] =
                          IF AgreedKey(tasks[s].input) = tasks[s].session_key
                          THEN tasks[s].session_key ELSE None]
    /\ tasks' = [tasks EXCEPT ![s].pc = "respond"]
    /\ UNCHANGED <<Websockets, ServerState, Database, resp, encrypted>>

\* pq.py 103-108: return HandshakeResponse(status="ok", ...)
HandshakeRespond(s) ==
    /\ tasks[s].op = "handshake" /\ tasks[s].pc = "respond"
    /\ resp' = Response("handshake", tasks[s].user, 200, "", tasks[s].input,
                        None, tasks[s].shared_secret, None, None)
    /\ tasks' = [tasks EXCEPT ![s] = Idle]
    /\ UNCHANGED <<Websockets, ServerState, Database, session_keys, agreed_key, encrypted>>

\* pq.py 110-115: except Exception as e: raise HTTPException(400, ...)
HandshakeExcept(s) ==
    /\ tasks[s].op = "handshake" /\ tasks[s].pc = "except"
    /\ HandshakeFailed(tasks[s].user, tasks[s].input, tasks[s].error)
    /\ tasks' = [tasks EXCEPT ![s] = Idle]
    /\ UNCHANGED <<Websockets, ServerState, Database, encrypted>>

\* messages.py 15-33: POST /messages with an encrypted body that passed the
\* MessageCreate validation is taken up in slot s
SendReceive(s, user_id, body) ==
    /\ tasks[s] = Idle
    /\ model_post_init(body) = ""
    /\ is_encrypted(body)
    /\ tasks' = [tasks EXCEPT ![s] =
                    Task("send_message", "fetch", user_id, body, None, None, None, "")]
    /\ UNCHANGED <<Websockets, ServerState, Database, session_keys, agreed_key, resp, encrypted>>

\* messages.py 35-40: session_key = get_session_key(user_id), 400 when None
SendFetch(s) ==
    /\ tasks[s].op = "send_message" /\ tasks[s].pc = "fetch"
    /\ LET session_key == get_session_key(tasks[s].user) IN
       IF session_key = None
       THEN /\ SendRejected(tasks[s].user, tasks[s].input, 400,
                            "No session key found. Please perform PQ handshake first.",
                            None, None)
            /\ tasks' = [tasks EXCEPT ![s] = Idle]
       ELSE /\ tasks' = [tasks EXCEPT ![s].pc = "decrypt", ![s].session_key = session_key]
            /\ UNCHANGED <<messages, message_requests, resp>>
    /\ UNCHANGED <<Websockets, ServerState, documents, session_keys, agreed_key, encrypted>>

\* messages.py 42-55: the try block, under the key fetched before
SendDecrypt(s) ==
    /\ tasks[s].op = "send_message" /\ tasks[s].pc = "decrypt"
    /\ LET in == decrypt_with(tasks[s].session_key, tasks[s].input, "message") IN
       IF ~in.ok
       THEN /\ SendRejected(tasks[s].user, tasks[s].input, in.status, in.detail, in.key, None)
            /\ tasks' = [tasks EXCEPT ![s] = Idle]
       ELSE /\ tasks' = [tasks EXCEPT ![s].pc = "deliver",
                                      ![s].plaintext_content = in.plaintext_content]
            /\ UNCHANGED <<messages, message_requests, resp>>
    /\ UNCHANGED <<Websockets, ServerState, documents, session_keys, agreed_key, encrypted>>

\* messages.py 65-182: the rest of the handler, for the request's
\* recipient_id, which is read from here on only
SendDeliver(s, recipient_id) ==
    /\ tasks[s].op = "send_message" /\ tasks[s].pc = "deliver"
    /\ deliver(tasks[s].user, recipient_id, tasks[s].input,
               Ingested(TRUE, 0, "", tasks[s].session_key, tasks[s].plaintext_content))
    /\ tasks' = [tasks EXCEPT ![s] = Idle]
    /\ UNCHANGED <<websockets, ServerState, documents, session_keys, agreed_key, encrypted>>

\* ------------------------------------------------------------ behaviours
\* requests served one after the other, each handler run to its end
\* ---------------------- routers/messages.py: handle_message_request
\* POST /messages/requests/{request_id}/action, statement by statement: the
\* handler awaits find_one, insert_one and update_one, and other requests run
\* in between.  The i-th message request has _id DocId(i).
RequestIds == {DocId(i) : i \in 1..MaxRecords} \cup {InvalidDocId}
RequestActions == {"accept", "decline", "block"}
ActionBody(request_id, action) == [request_id |-> request_id, action |-> action]

\* message_requests.find_one({"_id": request_id, "recipient_id": user_id,
\* "status": "pending"}) finds a request
PendingRequestFound(request_id, user_id) ==
    /\ request_id[2] \in 1..Len(message_requests)
    /\ message_requests[request_id[2]].recipient_id = user_id
    /\ message_requests[request_id[2]].status = "pending"

HandleAnswer(s, status, detail, result) ==
    /\ resp' = Response("handle_message_request", tasks[s].user, status, detail,
                        tasks[s].input, None, None, None, result)
    /\ tasks' = [tasks EXCEPT ![s] = Idle]

\* the request arrives; the two validations run before the first await
HandleReceive(s, user_id, request_id, action) ==
    /\ tasks[s] = Idle
    /\ IF request_id = InvalidDocId
       THEN /\ resp' = Response("handle_message_request", user_id, 400,
                                "Invalid request ID", ActionBody(request_id, action),
                                None, None, None, None)
            /\ UNCHANGED tasks
       ELSE IF action \notin {"accept", "decline"}
       THEN /\ resp' = Response("handle_message_request", user_id, 400,
                                "Action must be 'accept' or 'decline'",
                                ActionBody(request_id, action), None, None, None, None)
            /\ UNCHANGED tasks
       ELSE /\ tasks' = [tasks EXCEPT ![s] =
                   Task("handle_message_request", "find", user_id,
                        ActionBody(request_id, action), None, None, None, "")]
            /\ UNCHANGED resp
    /\ UNCHANGED <<Websockets, ServerState, Database, session_keys, agreed_key, encrypted>>

\* request = await message_requests.find_one(...); plaintext_content holds
\* the content of the request found
HandleFind(s) ==
    /\ tasks[s].op = "handle_message_request" /\ tasks[s].pc = "find"
    /\ LET request_id == tasks[s].input.request_id IN
       IF ~PendingRequestFound(request_id, tasks[s].user)
       THEN HandleAnswer(s, 404, "Message request not found or already processed", None)
       ELSE /\ tasks' = [tasks EXCEPT
                   ![s].pc = IF tasks[s].input.action = "accept" THEN "insert" ELSE "update",
                   ![s].plaintext_content = message_requests[request_id[2]].content]
            /\ UNCHANGED resp
    /\ UNCHANGED <<Websockets, ServerState, Database, session_keys, agreed_key, encrypted>>

\* await messages.insert_one(message_doc), the request copied into a message
HandleInsert(s) ==
    /\ tasks[s].op = "handle_message_request" /\ tasks[s].pc = "insert"
    /\ CanInsertMessage
    /\ LET request == message_requests[tasks[s].input.request_id[2]] IN
       messages' = Append(messages,
                      [sender_id |-> request.sender_id, recipient_id |-> request.recipient_id,
                       content |-> tasks[s].plaintext_content,
                       timestamp |-> RequestTimestamp(tasks[s].input.request_id[2])])
    /\ tasks' = [tasks EXCEPT ![s].pc = "update"]
    /\ UNCHANGED <<Websockets, ServerState, message_requests, documents, session_keys,
                   agreed_key, encrypted, resp>>

\* await message_requests.update_one({"_id": request_id}, {"$set": {"status":
\* ...}}), then the answer
HandleUpdate(s) ==
    /\ tasks[s].op = "handle_message_request" /\ tasks[s].pc = "update"
    /\ LET new_status == IF tasks[s].input.action = "accept" THEN "accepted" ELSE "declined"
       IN  /\ message_requests' = [message_requests EXCEPT
                   ![tasks[s].input.request_id[2]].status = new_status]
           /\ HandleAnswer(s, 200, "", Str(new_status))
    /\ UNCHANGED <<Websockets, ServerState, messages, documents, session_keys, agreed_key,
                   encrypted>>

\* message requests and their handling: plaintext messages are sent, and
\* accept and decline actions run concurrently
ReqNext ==
    \/ \E u \in Users : \E r \in Users \cup {UnknownUser} :
          send_message(u, r, Body(Str("hello"), None, None))
    \/ \E s \in Slots : \E u \in Users : \E d \in RequestIds : \E a \in RequestActions :
          HandleReceive(s, u, d, a)
    \/ \E s \in Slots : HandleFind(s)
    \/ \E s \in Slots : HandleInsert(s)
    \/ \E s \in Slots : HandleUpdate(s)

ReqSpec == Init /\ [][ReqNext]_vars

\* WebSocket connections, authenticated or not, and the notifications that
\* plaintext messages cause
WsNext ==
    \/ \E u \in Users : \E t \in Tokens : \E n \in 1..MaxConnections :
          websocket_endpoint(u, t, n)
    \/ \E ws \in websockets : WebsocketDisconnect(ws)
    \/ \E u \in Users : \E r \in Users :
          send_message(u, r, Body(Str("hello"), None, None))

WsSpec == Init /\ [][WsNext]_vars

Next ==
    \/ GenerateServerKeypair
    \/ get_kem_public_key
    \/ \E u \in Users : \E w \in HandshakeInputs : handshake(u, w)
    \/ \E u \in Users : ClearSessionKey(u)
    \/ \E u \in Users : GetSessionKey(u)
    \/ \E u \in Users : HasSessionKey(u)
    \/ \E u \in Users : \E r \in Recipients : \E b \in Bodies : send_message(u, r, b)
    \/ \E u \in Users : \E b \in Bodies : upload_document(u, b)

Spec == Init /\ [][Next]_vars

\* requests in flight side by side, after the key pair was generated at
\* startup: handshakes, and encrypted submissions sent intact or tampered with
ConcHandshakeInputs == HandshakeInputs \ {b64encode(ShortCiphertext)}
ConcBodies ==
    {IntactBody(p) : p \in SealedTexts}
    \cup {Body(None, b64encode(p.nonce), b64encode(FlipBit(p.ciphertext))) : p \in SealedTexts}

ConcNext ==
    \/ keygen_count = 0 /\ GenerateServerKeypair
    \/ \E s \in Slots : \E u \in Users : \E w \in ConcHandshakeInputs :
          HandshakeReceive(s, u, w)
    \/ \E s \in Slots : HandshakeDecapsulate(s)
    \/ \E s \in Slots : HandshakeStore(s)
    \/ \E s \in Slots : HandshakeRespond(s)
    \/ \E s \in Slots : HandshakeExcept(s)
    \/ \E s \in Slots : \E u \in Users : \E b \in ConcBodies : SendReceive(s, u, b)
    \/ \E s \in Slots : SendFetch(s)
    \/ \E s \in Slots : SendDecrypt(s)
    \/ \E s \in Slots : \E r \in Users : SendDeliver(s, r)

ConcSpec == Init /\ [][ConcNext]_vars

\* the application served after startup: one key pair, clients that
\* encapsulate against it, WebSocket connections, messages and documents
AppHandshakeInputs ==
    {b64encode(KemEncaps(pk, r).ciphertext) : pk \in PublishedKeys, r \in 1..MaxEncaps}
\* submissions that carry only one half of an encrypted payload
PartialBodies ==
    {Body(c, x.nonce, x.ciphertext) :
        c \in {None, Str("hello")},
        x \in UNION {{[nonce |-> b64encode(p.nonce), ciphertext |-> None],
                      [nonce |-> None, ciphertext |-> b64encode(p.ciphertext)]} :
                     p \in SealedTexts}}
AppBodies ==
    PlainBodies \cup MixedBodies \cup PartialBodies
    \cup UNION {WireBodies(p) : p \in SealedTexts}
\* document payloads: a plaintext one and the encrypted ones
DocumentBodies ==
    {Body(Str("hello"), None, None)} \cup UNION {WireBodies(p) : p \in SealedTexts}
\* DocumentUpdate payloads: the encrypted ones, a new title alone, new
\* plaintext content alone
EncryptedUpdates ==
    {[title |-> None, body |-> b] : b \in UNION {WireBodies(p) : p \in SealedTexts}}
DocumentUpdates ==
    {[title |-> Str("retitled"), body |-> Body(None, None, None)],
     [title |-> None, body |-> Body(Str("edited"), None, None)]}
    \cup EncryptedUpdates

AppNext ==
    \/ keygen_count = 0 /\ GenerateServerKeypair
    \/ \E u \in Users : \E w \in AppHandshakeInputs : handshake(u, w)
    \/ \E u \in Users : \E n \in 1..MaxSockets : WebsocketConnect(u, n)
    \/ \E ws \in websockets : WebsocketDisconnect(ws)
    \/ \E u \in Users : \E r \in Users : \E b \in AppBodies : send_message(u, r, b)
    \/ \E u \in Users : \E b \in DocumentBodies : upload_document(u, b)
    \/ \E u \in Users : \E d \in DocumentIds \ {InvalidDocId} : \E x \in EncryptedUpdates :
          update_document(u, d, x.title, x.body)

AppSpec == Init /\ [][AppNext]_vars

\* handshakes and the document routes: uploads, updates and deletions by every user
DocNext ==
    \/ keygen_count = 0 /\ GenerateServerKeypair
    \/ \E u \in Users : \E w \in AppHandshakeInputs : handshake(u, w)
    \/ \E u \in Users : \E b \in DocumentBodies : upload_document(u, b)
    \/ \E u \in Users : \E d \in DocumentIds : \E x \in DocumentUpdates :
          update_document(u, d, x.title, x.body)
    \/ \E u \in Users : \E d \in DocumentIds : delete_document(u, d)

DocSpec == Init /\ [][DocNext]_vars

\* --------------------------------------------------- the transport cipher
\* session keys as verify_aes_gcm makes them: HKDF of 32 random bytes
EncKeys == {derive_session_key(urandom(32, i), Label) : i \in 1..MaxRandom}

\* nonce, ciphertext = encrypt_aes_gcm(key, plaintext): str.encode raises on a
\* text UTF-8 cannot encode; otherwise os.urandom(12) returns one of its
\* possible outcomes and the call is logged with what it returned
EncryptAesGcm(key, plaintext) ==
    /\ IF ~CanEncode(plaintext)
       THEN /\ resp' = Response("encrypt_aes_gcm", "", 0,
                                "'utf-8' codec can't encode character: surrogates not allowed",
                                plaintext, None, None, key, None)
            /\ UNCHANGED encrypted
       ELSE /\ \E n \in 1..MaxDraws :
                  LET sealed == encrypt_aes_gcm(key, plaintext, n) IN
                  encrypted' = Append(encrypted, [key |-> key, plaintext |-> plaintext,
                                                  nonce |-> sealed.nonce,
                                                  ciphertext |-> sealed.ciphertext])
            /\ UNCHANGED resp
    /\ UNCHANGED <<Websockets, ServerState, Database, session_keys, agreed_key, tasks>>

EncNext ==
    \E key \in EncKeys : \E plaintext \in Texts :
        Len(encrypted) < MaxEncrypts /\ EncryptAesGcm(key, plaintext)

EncSpec == Init /\ [][EncNext]_vars

\* ---------------------------------------- the transport cipher, both ways
\* plaintext = decrypt_aes_gcm(key, nonce, ciphertext): the call returns the
\* text or raises ValueError
DecryptAesGcm(key, nonce, ciphertext) ==
    /\ LET error == decrypt_aes_gcm_error(key, nonce, ciphertext) IN
       resp' = Response("decrypt_aes_gcm", "", 0, error,
                        [nonce |-> nonce, ciphertext |-> ciphertext], None, None, key,
                        IF error = "" THEN decrypt_aes_gcm(key, nonce, ciphertext) ELSE None)
    /\ UNCHANGED <<Websockets, ServerState, Database, session_keys, agreed_key, tasks,
                   encrypted>>

\* the texts handed to encrypt_aes_gcm, the empty string among them
EncTexts == Texts \cup {Str(""), Surrogate}

\* a caller encrypts, then decrypts what encrypt_aes_gcm returned: as returned,
\* under another key, with another nonce, or with a bit of the ciphertext flipped
CipherNext ==
    \/ \E key \in EncKeys : \E plaintext \in EncTexts :
          Len(encrypted) < MaxSealed /\ EncryptAesGcm(key, plaintext)
    \/ \E i \in 1..Len(encrypted) : \E key \in EncKeys : \E n \in 1..MaxDraws :
          \E ciphertext \in {encrypted[i].ciphertext, FlipBit(encrypted[i].ciphertext)} :
             DecryptAesGcm(key, Nonce(n), ciphertext)

CipherSpec == Init /\ [][CipherNext]_vars

\* ---------------------------------------------------------- properties
NoSessionKeyDetail == "No session key found. Please perform PQ handshake first."
IngestOps == {"send_message", "upload_document"}
HandshakeAccepted(r) == r.op = "handshake" /\ r.status = 200
\* the request ran the encrypted branch of its handler
TookEncryptedBranch(r) ==
    \/ r.op = "send_message" /\ r.status # 422 /\ is_encrypted(r.input)
    \/ r.op = "upload_document" /\ document_is_encrypted(r.input)

\* C1: at most one session key is bound to an identity (the store is a map
\* from identities to keys), and an accepted handshake replaces the caller's
\* key: afterwards the caller's fetch returns the key derived in this
\* handshake, and a different previous key is no longer returned.
C1_LastHandshakeWins ==
    HandshakeAccepted(resp) =>
        /\ has_session_key(resp.user)
        /\ get_session_key(resp.user) = derive_session_key(resp.secret, Label)
        /\ resp.prior # derive_session_key(resp.secret, Label)
              => get_session_key(resp.user) # resp.prior

C1_Witness ==
    /\ HandshakeAccepted(resp)
    /\ resp.prior # None
    /\ resp.prior # get_session_key(resp.user)

\* C2: a handshake request that fails leaves the session key store exactly as
\* it was: no entry is added, changed or removed.
C2_FailedHandshakeKeepsStore ==
    [][(resp'.op = "handshake" /\ resp'.status # 200) => session_keys' = session_keys]_vars

C2_Witness ==
    /\ resp.op = "handshake"
    /\ resp.status = 400
    /\ resp.detail = "Handshake failed: oqs decapsulation error"
    /\ resp.prior # None
    /\ get_session_key(resp.user) = resp.prior

\* C3: an encrypted payload from an identity without a session key is refused
\* with the no-session-key outcome and no decryption is attempted, whatever
\* other identities have stored; a decryption only ever uses the caller's key.
C3_NoKeyNoDecryption ==
    /\ (TookEncryptedBranch(resp) /\ ~has_session_key(resp.user)) =>
          /\ resp.status = 400
          /\ resp.detail = NoSessionKeyDetail
          /\ resp.key = None
          /\ resp.result = None
    /\ (resp.op \in IngestOps /\ resp.key # None) =>
          /\ has_session_key(resp.user)
          /\ resp.key = session_keys[resp.user]

C3_Witness ==
    /\ resp.op = "send_message"
    /\ ~has_session_key(resp.user)
    /\ resp.detail = NoSessionKeyDetail
    /\ \E v \in Users \ {resp.user} : \E t \in Texts : \E n \in 1..MaxNonce :
          /\ has_session_key(v)
          /\ resp.input = IntactBody(encrypt_aes_gcm(session_keys[v], t, n))

\* C4: once a client encapsulated against the published public key and the
\* server accepted the handshake for its identity, the stored key is the key
\* the client derived, and a payload the client seals under that key is
\* decrypted to its plaintext by the ingestion path, as long as no later
\* handshake, clear or key generation intervened.
C4_EndToEnd ==
    /\ \A u \in Users : agreed_key[u] # None => get_session_key(u) = agreed_key[u]
    /\ \A t \in Texts : \A n \in 1..MaxNonce :
          (/\ resp.op \in IngestOps
           /\ agreed_key[resp.user] # None
           /\ resp.input = IntactBody(encrypt_aes_gcm(agreed_key[resp.user], t, n)))
          => resp.result = t

\* C5: a key enters the store only in an accepted handshake of the identity it
\* is stored for, and it is derive_session_key of what server_decapsulate
\* returned for the submitted ciphertext.
C5_KeysComeFromHandshake ==
    [][\A u \in Users :
          (/\ lookup_session_key(session_keys', u) # None
           /\ lookup_session_key(session_keys', u) # lookup_session_key(session_keys, u))
          => /\ HandshakeAccepted(resp')
             /\ resp'.user = u
             /\ IF HAS_OQS
                THEN resp'.secret = KemDecaps(server_kem_secret_key, b64decode(resp'.input))
                ELSE resp'.secret \in {urandom(32, i) : i \in 1..MaxRandom}
             /\ lookup_session_key(session_keys', u) = derive_session_key(resp'.secret, Label)
      ]_vars

C5_Witness ==
    /\ HandshakeAccepted(resp)
    /\ resp.secret[1] = "rej"
    /\ get_session_key(resp.user) = derive_session_key(resp.secret, Label)

\* C6: without the KEM library the component fails closed: no server key pair
\* is published and no session key is stored.
C6_FailClosed ==
    ~HAS_OQS => /\ server_kem_public_key = None
                /\ DOMAIN session_keys = {}

\* C7: for a client encapsulation against the server's public key,
\* server_decapsulate returns the client's shared secret.
C7_DecapsulateInvertsEncapsulate ==
    \A r \in 1..MaxEncaps :
        (/\ HandshakeAccepted(resp)
         /\ server_kem_public_key # None
         /\ resp.input = b64encode(KemEncaps(server_kem_public_key, r).ciphertext))
        => resp.secret = KemEncaps(server_kem_public_key, r).shared_secret

\* C8: get_session_key returns None for an identity without entry and otherwise
\* the key most recently stored for it: each step leaves it as it was, except
\* an accepted handshake of that identity (the key stored then) and a clear of
\* that identity (None); has_session_key is true exactly when get_session_key
\* is not None; the two reads leave the store alone.
C8_FetchReturnsLastStored ==
    [][/\ \A u \in Users :
            /\ lookup_session_key(session_keys', u) =
                  IF HandshakeAccepted(resp') /\ resp'.user = u
                  THEN derive_session_key(resp'.secret, Label)
                  ELSE IF resp'.op = "clear_session_key" /\ resp'.user = u
                  THEN None
                  ELSE lookup_session_key(session_keys, u)
            /\ has_session_key(u) <=> get_session_key(u) # None
       /\ resp'.op = "get_session_key" =>
            /\ session_keys' = session_keys
            /\ resp'.result = IF resp'.user \in DOMAIN session_keys
                              THEN session_keys[resp'.user] ELSE None
       /\ resp'.op = "has_session_key" =>
            /\ session_keys' = session_keys
            /\ resp'.result = <<"bool", get_session_key(resp'.user) # None>>
      ]_vars

C8_Witness ==
    /\ resp.op = "get_session_key"
    /\ resp.result # None
    /\ resp.result = session_keys[resp.user]
    /\ \E v \in Users : ~has_session_key(v)

\* C9: clear_session_key(id) removes id's entry and nothing else, without
\* error also when id has no entry; the next fetch for id returns None and an
\* encrypted payload id sends next is refused with the no-session-key outcome.
C9_ClearRemovesOnlyThatKey ==
    [][/\ resp'.op = "clear_session_key" =>
            /\ resp'.status = 0
            /\ lookup_session_key(session_keys', resp'.user) = None
            /\ DOMAIN session_keys' = DOMAIN session_keys \ {resp'.user}
            /\ \A v \in DOMAIN session_keys' : session_keys'[v] = session_keys[v]
       /\ (/\ resp.op = "clear_session_key"
           /\ resp'.user = resp.user
           /\ TookEncryptedBranch(resp'))
          => resp'.status = 400 /\ resp'.detail = NoSessionKeyDetail
      ]_vars

C9_Witness ==
    /\ resp.op = "clear_session_key"
    /\ resp.prior # None
    /\ ~has_session_key(resp.user)
    /\ \E v \in Users \ {resp.user} : has_session_key(v)

\* C10: the store starts empty; an entry for an identity appears only in an
\* accepted handshake of that identity and disappears only in a clear for that
\* identity, so failed handshakes, payload decryptions, plaintext submissions
\* and other identities' requests never remove it.
C10_EntryLifecycle ==
    /\ DOMAIN session_keys = {}
    /\ [][\A u \in Users :
            /\ (u \notin DOMAIN session_keys /\ u \in DOMAIN session_keys')
                  => HandshakeAccepted(resp') /\ resp'.user = u
            /\ (u \in DOMAIN session_keys /\ u \notin DOMAIN session_keys')
                  => resp'.op = "clear_session_key" /\ resp'.user = u
         ]_vars

C10_Witness ==
    /\ resp.op = "send_message"
    /\ resp.status = 400
    /\ resp.key # None
    /\ has_session_key(resp.user)
    /\ session_keys[resp.user] = resp.key

\* the step is slot s writing the store at the end of a handshake
StoresKey(s) ==
    tasks[s].op = "handshake" /\ tasks[s].pc = "store" /\ tasks'[s].pc = "respond"
\* slot s holds a handshake for identity u that got past decapsulation
HandshakeSucceeding(s, u) ==
    tasks[s].op = "handshake" /\ tasks[s].user = u /\ tasks[s].pc \in {"store", "respond"}

\* C11: with handshakes and encrypted submissions of one identity in flight
\* together, each step leaves the identity's stored key as it was or replaces
\* it, whole, by the key a handshake of that identity derived; an identity
\* that has a key never goes through a state without one; the key a
\* submission fetches is the stored key at that instant, and its decryption
\* runs under the key it fetched.
C11_AtomicStore ==
    [][/\ \A u \in Users :
            /\ \/ lookup_session_key(session_keys', u) = lookup_session_key(session_keys, u)
               \/ \E s \in Slots :
                     /\ StoresKey(s) /\ tasks[s].user = u
                     /\ lookup_session_key(session_keys', u) =
                           derive_session_key(tasks[s].shared_secret, Label)
            /\ u \in DOMAIN session_keys => u \in DOMAIN session_keys'
       /\ \A s \in Slots :
            /\ (tasks[s].pc = "fetch" /\ tasks'[s].pc = "decrypt") =>
                  /\ tasks[s].user \in DOMAIN session_keys
                  /\ tasks'[s].session_key = session_keys[tasks[s].user]
            /\ (tasks[s].pc = "decrypt" /\ tasks'[s].pc = "deliver") =>
                  /\ tasks'[s].session_key = tasks[s].session_key
                  /\ AesGcmOpens(tasks[s].session_key, b64decode(tasks[s].input.nonce),
                                 b64decode(tasks[s].input.ciphertext))
            /\ (tasks[s].pc = "decrypt" /\ tasks'[s].pc = "idle") =>
                  resp'.key = tasks[s].session_key
      ]_vars

\* a submission fetched its key, a handshake then replaced the key, and the
\* decryption ran under the key fetched
C11_Witness ==
    /\ resp.op = "send_message"
    /\ resp.key # None
    /\ has_session_key(resp.user)
    /\ get_session_key(resp.user) # resp.key
    /\ get_session_key(resp.user)[1] = "hkdf"

\* C12: when a handshake writes the store while another handshake of the same
\* identity is succeeding too, the stored key becomes the key derived from the
\* writer's ciphertext (the last writer wins), and only such a write changes
\* the identity's stored key.
C12_LastWriterWins ==
    [][\A s \in Slots : \A t \in Slots \ {s} :
          (tasks[s].op = "handshake" /\ HandshakeSucceeding(t, tasks[s].user)) =>
             IF StoresKey(s)
             THEN lookup_session_key(session_keys', tasks[s].user) =
                     derive_session_key(tasks[s].shared_secret, Label)
             ELSE \/ \E x \in Slots : StoresKey(x) /\ tasks[x].user = tasks[s].user
                  \/ lookup_session_key(session_keys', tasks[s].user) =
                        lookup_session_key(session_keys, tasks[s].user)
      ]_vars

\* two handshakes of one identity both wrote the store, with different keys,
\* and neither has returned yet
C12_Witness ==
    \E s \in Slots : \E t \in Slots \ {s} :
        /\ tasks[s].op = "handshake" /\ tasks[s].pc = "respond"
        /\ tasks[t].op = "handshake" /\ tasks[t].pc = "respond"
        /\ tasks[s].user = tasks[t].user
        /\ tasks[s].session_key # tasks[t].session_key
        /\ get_session_key(tasks[s].user) = tasks[s].session_key

\* C13: a handshake of identity A that writes the store while a handshake of
\* another identity is in flight gives A the key derived from A's ciphertext
\* and neither creates, changes nor removes the entry of any other identity;
\* the other steps of a handshake leave the store alone.
C13_IdentitiesDoNotInterfere ==
    [][\A s \in Slots :
          tasks[s].op = "handshake" =>
             IF StoresKey(s)
             THEN /\ tasks[s].user \in DOMAIN session_keys'
                  /\ session_keys'[tasks[s].user] =
                        derive_session_key(tasks[s].shared_secret, Label)
                  /\ \A b \in Users \ {tasks[s].user} :
                        /\ b \in DOMAIN session_keys' <=> b \in DOMAIN session_keys
                        /\ b \in DOMAIN session_keys => session_keys'[b] = session_keys[b]
             ELSE tasks'[s] # tasks[s] => session_keys' = session_keys
      ]_vars

\* handshakes of two identities wrote the store side by side and each
\* identity holds its own key
C13_Witness ==
    \E s \in Slots : \E t \in Slots \ {s} :
        /\ tasks[s].op = "handshake" /\ tasks[s].pc = "respond"
        /\ tasks[t].op = "handshake" /\ tasks[t].pc = "respond"
        /\ tasks[s].user # tasks[t].user
        /\ tasks[s].session_key # tasks[t].session_key
        /\ get_session_key(tasks[s].user) = tasks[s].session_key
        /\ get_session_key(tasks[t].user) = tasks[t].session_key

\* the failure signals of an uninitialised key pair
NotInitializedDetails ==
    {"Server keypair not initialized: Server keypair not initialized. Call generate_server_keypair() first.",
     "Handshake failed: Server secret key not initialized."}
HandshakeRefused(r) == r.op = "handshake" /\ r.status # 200
\* the request reached decryption with the caller's key and failed there
FailedDecryption(r) ==
    TookEncryptedBranch(r) /\ r.status = 400 /\ r.detail # NoSessionKeyDetail

\* C14: a public-key request or a handshake served before the first
\* generate_server_keypair ends with the not-initialised failure, and no
\* session key is stored.
C14_NotInitializedBeforeGenerate ==
    (resp.op \in {"get_kem_public_key", "handshake"} /\ keygen_count = 0) =>
        /\ resp.status \in {400, 500}
        /\ resp.detail \in NotInitializedDetails
        /\ DOMAIN session_keys = {}

\* C15: once a key pair was generated, every public-key fetch succeeds,
\* whoever holds session keys, returns the current public key, and leaves the
\* key pair and the session key store as they were.
C15_PublicKeyAlwaysServed ==
    [][(resp'.op = "get_kem_public_key" /\ resp' # resp /\ keygen_count > 0) =>
          /\ resp'.status = 200
          /\ resp'.result = b64encode(server_kem_public_key)
          /\ server_kem_public_key' = server_kem_public_key
          /\ server_kem_secret_key' = server_kem_secret_key
          /\ session_keys' = session_keys
      ]_vars

\* the key was fetched after a second generation, with a session established
C15_Witness ==
    /\ resp.op = "get_kem_public_key"
    /\ resp.status = 200
    /\ keygen_count = 2
    /\ resp.result = b64encode(server_kem_public_key)
    /\ DOMAIN session_keys # {}

\* C16: each error kind reaches the caller as its own failure and never as a
\* success: a handshake before initialisation reports the uninitialised key
\* (not a ciphertext failure), a handshake whose input is no encapsulation
\* is refused, a missing KEM library refuses every handshake, an encrypted
\* payload without session key gets the no-session-key failure and a failed
\* decryption a different one.
C16_ErrorKindsSurface ==
    /\ (resp.op = "handshake" /\ keygen_count = 0) =>
          resp.detail = "Handshake failed: Server secret key not initialized."
    /\ (resp.op = "handshake" /\ keygen_count > 0
          /\ resp.input \in {NotBase64, b64encode(ShortCiphertext)}) =>
          /\ resp.status = 400
          /\ resp.detail \notin NotInitializedDetails
    /\ (resp.op = "handshake" /\ ~HAS_OQS) => resp.status # 200
    /\ (TookEncryptedBranch(resp) /\ ~has_session_key(resp.user)) =>
          resp.detail = NoSessionKeyDetail
    /\ (TookEncryptedBranch(resp) /\ resp.key # None /\ resp.result = None) =>
          /\ resp.status = 400
          /\ resp.detail # NoSessionKeyDetail

\* C17: two failing decryptions for identities with a key get the same
\* response, whatever made them fail, and no plaintext comes back with it.
C17_UniformDecryptionFailure ==
    [][(FailedDecryption(resp) /\ FailedDecryption(resp') /\ resp'.op = resp.op) =>
          /\ resp'.detail = resp.detail
          /\ resp'.result = None
      ]_vars

\* C18: two failing handshakes get the same response, whatever made them fail.
C18_GenericHandshakeFailure ==
    [][(HandshakeRefused(resp) /\ HandshakeRefused(resp')) =>
          /\ resp'.status = resp.status
          /\ resp'.detail = resp.detail
      ]_vars

\* C19: an accepted handshake repeated at once with the same ciphertext by
\* the same identity, the key pair being the same, leaves the session key
\* store as the first one left it.
C19_HandshakeIdempotent ==
    [][(/\ HandshakeAccepted(resp) /\ HandshakeAccepted(resp')
        /\ resp'.user = resp.user
        /\ resp'.input = resp.input
        /\ keygen_count' = keygen_count)
       => session_keys' = session_keys
      ]_vars

DecryptsEncryption(i) ==
    /\ resp.op = "decrypt_aes_gcm"
    /\ resp.key = encrypted[i].key
    /\ resp.input.nonce = encrypted[i].nonce
    /\ resp.input.ciphertext = encrypted[i].ciphertext

\* C21: decrypt_aes_gcm applied, under the same key, to the nonce and
\* ciphertext that encrypt_aes_gcm returned for a plaintext returns exactly
\* that plaintext, the empty string included.
C21_RoundTrip ==
    \A i \in 1..Len(encrypted) :
        DecryptsEncryption(i)
        => resp.detail = "" /\ resp.result = encrypted[i].plaintext

\* the empty string went through encrypt_aes_gcm and back
C21_Witness ==
    \E i \in 1..Len(encrypted) :
        /\ DecryptsEncryption(i)
        /\ encrypted[i].plaintext = Str("")
        /\ resp.result = Str("")

\* C22: decrypt_aes_gcm given a valid payload with the nonce or the
\* ciphertext changed, or under another key, raises; whenever it returns, it
\* returns the plaintext that was encrypted into what it was given.
C22_TamperingFails ==
    resp.op = "decrypt_aes_gcm"
    => \/ resp.detail # "" /\ resp.result = None
       \/ \E i \in 1..Len(encrypted) :
             DecryptsEncryption(i) /\ resp.result = encrypted[i].plaintext

\* a returned payload was decrypted with another nonce and the call raised
C22_Witness ==
    /\ resp.op = "decrypt_aes_gcm"
    /\ resp.detail # ""
    /\ \E i \in 1..Len(encrypted) :
          /\ resp.key = encrypted[i].key
          /\ resp.input.ciphertext = encrypted[i].ciphertext
          /\ resp.input.nonce # encrypted[i].nonce

\* the shared secret the client's own encapsulation returned for the
\* ciphertext w it sent
ClientSharedSecret(w) == <<"ss", b64decode(w)[2], b64decode(w)[3]>>

C24_SecretKeyStaysInside ==
    /\ resp.op = "generate_server_keypair"
          => \A i \in 2..Len(resp.result) : resp.result[i] # server_kem_secret_key
    /\ (resp.op = "get_kem_public_key" /\ resp.status = 200)
          => resp.result = b64encode(server_kem_public_key)
    /\ \A u \in DOMAIN session_keys : session_keys[u][1] = "hkdf"

\* the key pair of the latest generate_server_keypair call
CurrentKeypair == generate_server_keypair(HAS_OQS, keygen_count)

FirstGenerationKeys ==
    {derive_session_key(KemEncaps(generate_server_keypair(HAS_OQS, 1).public_key, r).shared_secret,
                        Label) : r \in 1..MaxEncaps}

\* C26: after a second generate_server_keypair, a payload sealed under a
\* session key established under the first key pair is not decrypted by the
\* ingestion path any more.
C26_RegenerationInvalidatesKeys ==
    (/\ keygen_count = 2
     /\ resp.op \in IngestOps
     /\ TookEncryptedBranch(resp)
     /\ resp.key \in FirstGenerationKeys)
    => resp.result = None

\* the request carried non-blank content and neither nonce nor ciphertext
PlaintextPath(r) ==
    /\ r.op \in IngestOps
    /\ r.input.nonce = None /\ r.input.ciphertext = None
    /\ r.input.content # None /\ ~strip_is_empty(r.input.content)

\* C27: a message or document submitted with plaintext content and no
\* encrypted payload is taken as sent whether or not its sender has a
\* session key; handling it hands no key to decrypt_aes_gcm and leaves the
\* session key store as it was.  A request reaches content with a key
\* recorded only on the encrypted branch, where the content is the
\* decryption of its payload under the sender's stored key.
C27_PlaintextPathIgnoresSessions ==
    [][/\ PlaintextPath(resp')
          => /\ resp'.result = resp'.input.content
             /\ resp'.key = None
             /\ resp'.detail # NoSessionKeyDetail
             /\ session_keys' = session_keys
       /\ (resp'.op \in IngestOps /\ resp'.key # None /\ resp'.result # None)
          => /\ TookEncryptedBranch(resp')
             /\ resp'.key = get_session_key(resp'.user)
             /\ resp'.result = decrypt_aes_gcm(resp'.key, b64decode(resp'.input.nonce),
                                               b64decode(resp'.input.ciphertext))
      ]_vars

\* a sender with a session key had a plaintext message accepted
C27_Witness ==
    /\ PlaintextPath(resp)
    /\ resp.op = "send_message"
    /\ resp.status = 201
    /\ has_session_key(resp.user)
    /\ \E i \in 1..Len(message_requests) :
          message_requests[i].content = resp.input.content

DocumentOps == {"update_document", "delete_document"}
\* the request named an existing document that belongs to somebody else
ByNonOwner(r) ==
    /\ r.op \in DocumentOps
    /\ r.input.document_id # InvalidDocId
    /\ DocumentFound(r.input.document_id)
    /\ documents[r.input.document_id[2]].user_id # r.user

\* C28: a document changes or disappears only in a successful update or
\* delete request for it made by its owner, so its title and content were
\* last written by its owner; an update or delete request by anybody else is
\* answered 403 and leaves the documents as they were.
C28_OnlyOwnerWrites ==
    [][/\ Len(documents') >= Len(documents)
       /\ \A i \in 1..Len(documents) :
             documents'[i] # documents[i]
             => /\ resp'.op \in DocumentOps
                /\ resp'.status = 200
                /\ resp'.user = documents[i].user_id
                /\ resp'.input.document_id = DocId(i)
                /\ documents'[i].deleted # documents[i].deleted
                      => resp'.op = "delete_document"
       /\ \A i \in 1..Len(documents') :
             documents'[i].written_by = documents'[i].user_id
       /\ ByNonOwner(resp') => (resp'.status = 403 /\ documents' = documents)
      ]_vars

\* somebody else's update request for an existing document was answered 403
C28_Witness ==
    /\ resp.op = "update_document"
    /\ resp.status = 403
    /\ \E i \in 1..Len(documents) :
          /\ resp.input.document_id = DocId(i)
          /\ ~documents[i].deleted
          /\ documents[i].user_id # resp.user
          /\ documents[i].written_by = documents[i].user_id

\* what a submission carries
HasContent(b) == b.content # None /\ ~strip_is_empty(b.content)
HasPayload(b) == b.nonce # None /\ b.ciphertext # None
\* the answer shows that the handler went through its encrypted branch: it
\* looked for the session key, decoded the payload or decrypted it
EncryptedBranchSeen(r) ==
    \/ r.detail = NoSessionKeyDetail
    \/ r.detail = "Failed to decrypt message: Incorrect padding"
    \/ r.key # None

\* C29: a message submission is rejected at validation exactly when it
\* carries neither or both of a non-blank content and an encrypted payload
\* (nonce and ciphertext together); a submission that passes validation is
\* handled as encrypted exactly when it carries both nonce and ciphertext.
C29_ExactlyOneOfContentOrPayload ==
    resp.op = "send_message"
    => /\ resp.status = 422 <=> (HasContent(resp.input) <=> HasPayload(resp.input))
       /\ resp.status # 422 => (EncryptedBranchSeen(resp) <=> HasPayload(resp.input))
       /\ is_encrypted(resp.input) <=> HasPayload(resp.input)

\* a submission with content and an encrypted payload was rejected at validation
C29_Witness ==
    /\ resp.op = "send_message"
    /\ resp.status = 422
    /\ HasContent(resp.input)
    /\ HasPayload(resp.input)
    /\ resp.detail = "Cannot provide both plaintext 'content' and encrypted 'nonce'/'ciphertext'"

\* the request carried an encrypted payload and was refused for want of a
\* session key, for a payload that is not base64, or by decrypt_aes_gcm
RejectedInDecryption(r) ==
    /\ r.op \in {"send_message", "upload_document", "update_document"}
    /\ HasPayload(r.input)
    /\ r.status = 400
    /\ \/ r.detail = NoSessionKeyDetail
       \/ r.detail \in {"Failed to decrypt message: Incorrect padding",
                        "Failed to decrypt document: Incorrect padding"}
       \/ r.key # None /\ r.result = None

\* C30: a message, document upload or document update whose encrypted
\* payload is refused (no session key, undecodable base64, failed
\* decryption) leaves messages, message requests and documents as they were
\* and sends nothing over any WebSocket.  (A step that opens or closes a
\* WebSocket answers no request and is not concerned.)
C30_RejectedPayloadLeavesNoTrace ==
    [][(RejectedInDecryption(resp') /\ websockets' = websockets)
       => /\ messages' = messages
          /\ message_requests' = message_requests
          /\ documents' = documents
          /\ ws_sent' = ws_sent
          /\ active_connections' = active_connections
      ]_vars

\* a message that failed decryption under the sender's key was refused
\* while every user was connected; nothing is stored, nothing was sent
C30_Witness ==
    /\ resp.op = "send_message"
    /\ RejectedInDecryption(resp)
    /\ resp.key # None
    /\ DOMAIN active_connections = Users
    /\ Len(messages) + Len(message_requests) + Len(documents) = 0
    /\ ws_sent = <<>>

\* the number of records the three collections hold
StoredRecords == Len(messages) + Len(message_requests) + Len(documents)

\* C31: a send_message request that succeeds has persisted exactly one
\* record (a message or a message request) and one that fails has persisted
\* none; an encrypted first-contact submission stored as a message request
\* is answered with success.
C31_OneRecordIffSuccess ==
    [][(resp'.op = "send_message" /\ websockets' = websockets)
       => IF resp'.status = 201
          THEN StoredRecords' = StoredRecords + 1
          ELSE StoredRecords' = StoredRecords
      ]_vars

\* the last step answered a handle_message_request call with a failure
HandleFailed(r) == r.op = "handle_message_request" /\ r.status # 200

\* C32: a message request's status changes only from pending, to accepted
\* or to declined, and never again afterwards; a handle_message_request
\* call that fails changes neither the requests nor the messages.
C32_StatusMovesOnceFromPending ==
    [][/\ \A i \in 1..Len(message_requests) :
             message_requests'[i].status # message_requests[i].status
             => /\ message_requests[i].status = "pending"
                /\ message_requests'[i].status \in {"accepted", "declined"}
       /\ (HandleFailed(resp') /\ resp' # resp)
             => /\ message_requests' = message_requests
                /\ messages' = messages
      ]_vars

\* the messages copied from the i-th message request
CopiesOf(i) == {j \in 1..Len(messages) : messages[j].timestamp = RequestTimestamp(i)}
\* no handle_message_request call is in flight
NoActionInFlight == \A s \in Slots : tasks[s].op # "handle_message_request"

\* C33: whatever the interleaving of accept and decline actions on a
\* pending message request, at most one message is copied from it, and once
\* the actions have ended a copy exists exactly when the request's status
\* is accepted.
C33_AtMostOneCopy ==
    \A i \in 1..Len(message_requests) :
        /\ Cardinality(CopiesOf(i)) <= 1
        /\ NoActionInFlight
              => (CopiesOf(i) # {} <=> message_requests[i].status = "accepted")

\* the message is between the users a and b, in either direction
Between(m, a, b) ==
    \/ m.sender_id = a /\ m.recipient_id = b
    \/ m.sender_id = b /\ m.recipient_id = a

\* C34: a message enters the messages collection only as the copy of a
\* message request that its recipient accepts, or from send_message when a
\* message between the two users is already stored, so the first message
\* between two users is always an accepted request; send_message to a user
\* with no message in either direction adds one pending request and no
\* message, and sending to oneself or to an unknown recipient adds nothing.
\* (A step that leaves tasks unchanged is a send_message request; the steps
\* of handle_message_request all move a task.)
C34_MessagesFollowAcceptedRequest ==
    [][/\ Len(messages') > Len(messages)
          => LET m == messages'[Len(messages')] IN
             /\ Len(messages') = Len(messages) + 1
             /\ message_requests' = message_requests
             /\ \/ \E s \in Slots :
                      /\ tasks[s].op = "handle_message_request"
                      /\ tasks[s].input.action = "accept"
                      /\ tasks'[s].pc = "update"
                      /\ tasks[s].user = m.recipient_id
                      /\ m.timestamp = RequestTimestamp(tasks[s].input.request_id[2])
                      /\ Between(message_requests[tasks[s].input.request_id[2]],
                                 m.sender_id, m.recipient_id)
                \/ /\ tasks' = tasks
                   /\ resp'.op = "send_message"
                   /\ resp'.user = m.sender_id
                   /\ existing_conversation(m.sender_id, m.recipient_id)
       /\ \A j \in 1..Len(messages') :
             \E k \in 1..j :
                /\ Between(messages'[k], messages'[j].sender_id, messages'[j].recipient_id)
                /\ messages'[k].timestamp # Now
       /\ Len(message_requests') > Len(message_requests)
          => /\ messages' = messages
             /\ tasks' = tasks
             /\ resp'.op = "send_message"
             /\ message_requests'[Len(message_requests')].status = "pending"
             /\ ~existing_conversation(message_requests'[Len(message_requests')].sender_id,
                                       message_requests'[Len(message_requests')].recipient_id)
       /\ (tasks' = tasks
           /\ resp'.op = "send_message"
           /\ resp'.detail \in {"Cannot send message to yourself", "Recipient user not found",
                                "Invalid recipient ID"})
          => /\ messages' = messages
             /\ message_requests' = message_requests
      ]_vars

\* after the recipient accepted the request, a message sent between the two
\* users was stored as a message
C34_Witness ==
    /\ resp.op = "send_message"
    /\ resp.status = 201
    /\ Len(messages) = 2
    /\ messages[1].timestamp = RequestTimestamp(1)
    /\ messages[2].timestamp = Now
    /\ Between(messages[2], messages[1].sender_id, messages[1].recipient_id)
    /\ message_requests[1].status = "accepted"

\* the record the last send_message stored
LastStored(reqs, msgs, reqs0) == IF Len(reqs) > Len(reqs0) THEN reqs[Len(reqs)] ELSE msgs[Len(msgs)]

\* C35: a connection enters the registry under user U only in a
\* websocket_endpoint call whose token authenticated as U and whose path user
\* id is U; a call with a missing or invalid token or another user's path
\* is closed and registers nothing; a notification for U goes to the
\* connection registered for U, which authenticated as U.
C35_OnlyAuthenticatedConnectionsRegistered ==
    [][/\ \A u \in DOMAIN active_connections' :
             (u \notin DOMAIN active_connections \/ active_connections'[u] # active_connections[u])
             => /\ resp'.op = "websocket_endpoint"
                /\ resp'.status = 101
                /\ resp'.input = Token(u)
                /\ resp'.user = u
                /\ active_connections'[u] = resp'.result
                /\ active_connections'[u][2] = u
       /\ (/\ resp'.op = "websocket_endpoint"
           /\ resp' # resp
           /\ resp'.input # Token(resp'.user))
          => /\ resp'.status = 1008
             /\ active_connections' = active_connections
             /\ websockets' = websockets
       /\ Len(ws_sent') > Len(ws_sent)
          => LET sent == ws_sent'[Len(ws_sent')]
                 stored == LastStored(message_requests', messages', message_requests)
             IN  /\ sent.to = active_connections[stored.recipient_id]
                 /\ sent.to[2] = stored.recipient_id
      ]_vars

\* a connection that presented another user's token was closed while that
\* user's own connection stayed registered
C35_Witness ==
    /\ resp.op = "websocket_endpoint"
    /\ resp.status = 1008
    /\ resp.detail = "Invalid user"
    /\ resp.input # Token(resp.user)
    /\ resp.input[2] \in DOMAIN active_connections
    /\ resp.user \notin DOMAIN active_connections

\* C36: the registry entry of a user refers to a connection that is still
\* open, and an entry is removed only when the connection it refers to has
\* closed or a send on it failed: a connection that closes leaves the entry
\* of a later connection of the same user in place.
C36_EntryFollowsItsConnection ==
    [][/\ \A u \in DOMAIN active_connections' : active_connections'[u] \in websockets'
       /\ \A u \in DOMAIN active_connections :
             u \notin DOMAIN active_connections'
             => \/ active_connections[u] \notin websockets'
                \/ StoredRecords' > StoredRecords
      ]_vars

====
